---- MODULE Spec2Model ----
(***************************************************************************)
(* Forge project scaffolding: the generator composition engine.            *)
(*                                                                         *)
(* The model follows GeneratorOrchestrator (the hardcoded generator list   *)
(* and its sequential execution), StructureGenerator, AlembicGenerator,    *)
(* FileOperations.create_file, ConfigReader and the docker command.        *)
(* A destination tree is a set of directories plus a map from file paths   *)
(* to contents; a path is the tuple of its components.                     *)
(***************************************************************************)
EXTENDS Integers, Sequences, FiniteSets, TLC

VARIABLES
    config,     \* the loaded configuration (ConfigReader.config)
    files,      \* destination tree: file path -> content
    dirs,       \* destination tree: set of directory paths
    entry,      \* the entry point of the current invocation
    pc,         \* position of the current invocation
    plan,       \* GeneratorOrchestrator.generators (or the docker command's steps)
    idx,        \* index of the next generator of the plan to run
    executed,   \* generators of the plan whose generate() returned, in order
    err,        \* the exception that ended the invocation, "none" otherwise
    outcome,    \* how the invocation ended, seen by its caller
    runs,       \* number of invocations started on this tree
    firstPlan,  \* history: the generator list built by the first orchestrator
    prevEntry,  \* history: entry point of the previous invocation
    prevOutcome,\* history: outcome of the previous invocation
    prevFiles,  \* history: the files at the end of the previous invocation
    registry,   \* the registered step descriptors, in registration order
    call,       \* history: the create_file call and the tree before it when
                \* the last call of the writer was one, as a sequence of at
                \* most one record; <<"register", id>> after register(step)
    answer,     \* history: the answer to "What would you like to do?" of the
                \* last interactive init, "none" when it was not asked
    asked       \* number of invocations that asked the configuration
                \* questions on this tree

vars == <<config, files, dirs, entry, pc, plan, idx, executed, err, outcome,
          runs, firstPlan, prevEntry, prevOutcome, prevFiles, registry, call,
          answer, asked>>

\* The variables only the registry, the writer and the interactive init
\* change.
aux == <<registry, call, answer, asked>>

\* Number of invocations run one after the other on the same destination tree.
MaxRuns == 2

\* Number of invocations on the same tree that ask the configuration
\* questions.
MaxAsked == 1

\* Python's None
NULL == "null"

----------------------------------------------------------------------------
(* Configuration: the content of .forge/config.json.                       *)
(* db = NULL: no "database" entry; auth = NULL: features carry no auth     *)
(* type; name, features: the "project_name" and "features" keys are there; *)
(* file: .forge/config.json is there; refresh: the refresh_token flag of   *)
(* the auth entry, FALSE when it is missing.                               *)

DatabaseEntries ==
    {[db |-> NULL, orm |-> NULL, migration |-> NULL]} \cup
    [db : {"PostgreSQL", "MySQL"}, orm : {"SQLModel", "SQLAlchemy"},
     migration : {"Alembic", NULL}]

Configs ==
    {[file |-> TRUE, name |-> TRUE, features |-> TRUE,
      db |-> d.db, orm |-> d.orm, migration |-> d.migration, auth |-> a,
      refresh |-> (a = "complete"),
      cors |-> co, testing |-> t, docker |-> dk] :
        d \in DatabaseEntries, a \in {NULL, "none", "basic", "complete"},
        co \in BOOLEAN, t \in BOOLEAN, dk \in BOOLEAN}

\* The record {} : no key at all.
EmptyConfig ==
    [file |-> TRUE, name |-> FALSE, features |-> FALSE, db |-> NULL,
     orm |-> NULL,
     migration |-> NULL, auth |-> NULL, refresh |-> FALSE, cors |-> FALSE,
     testing |-> FALSE, docker |-> FALSE]

\* No .forge/config.json in the project directory.
NoConfig == [EmptyConfig EXCEPT !.file = FALSE]

\* Hand-written files that lack a required key; a missing "features" key
\* leaves every feature getter at its default.
InvalidConfigs ==
    {EmptyConfig,
     [EmptyConfig EXCEPT !.name = TRUE],
     [EmptyConfig EXCEPT !.features = TRUE, !.auth = "none", !.docker = TRUE],
     [EmptyConfig EXCEPT !.name = TRUE, !.db = "PostgreSQL",
                         !.orm = "SQLModel", !.migration = "Alembic"]}

\* The configuration of the non-interactive init.
DefaultConfig ==
    [file |-> TRUE, name |-> TRUE, features |-> TRUE, db |-> "PostgreSQL",
     orm |-> "SQLAlchemy", migration |-> "Alembic", auth |-> "complete",
     refresh |-> TRUE, cors |-> TRUE, testing |-> TRUE, docker |-> TRUE]

\* load_config: the error it raises.
load_config(c) == IF ~c.file THEN "FileNotFoundError" ELSE "none"

\* validate_config: "False" and "True" are its return values.
validate_config(c) ==
    IF ~c.name /\ ~c.features /\ c.db = NULL THEN "False"
    ELSE IF ~c.name \/ ~c.features THEN "ValueError"
    ELSE "True"

get_database_config(c) == IF c.db = NULL THEN NULL ELSE c.db

get_database_type(c) == IF get_database_config(c) # NULL THEN c.db ELSE NULL

get_orm_type(c) == IF get_database_config(c) # NULL THEN c.orm ELSE NULL

get_migration_tool(c) ==
    IF get_database_config(c) # NULL THEN c.migration ELSE NULL

has_migration(c) == get_migration_tool(c) # NULL

has_database(c) == get_database_config(c) # NULL

has_auth(c) == c.auth # "none"

get_auth_type(c) == c.auth

has_refresh_token(c) == c.refresh

has_cors(c) == c.cors

has_testing(c) == c.testing

has_docker(c) == c.docker

----------------------------------------------------------------------------
(* The generator list of GeneratorOrchestrator.                            *)

get_base_config_generators ==
    << "PyprojectGenerator", "ReadmeGenerator", "GitignoreGenerator",
       "EnvGenerator", "ConfigBaseGenerator", "ConfigAppGenerator",
       "ConfigLoggerGenerator", "LoggerManagerGenerator",
       "ConfigCorsGenerator", "ConfigDatabaseGenerator",
       "ConfigJwtGenerator", "ConfigEmailGenerator",
       "ConfigSettingsGenerator" >>

get_database_generators(c) ==
    <<"DatabaseConnectionGenerator">>
    \o (IF get_database_type(c) = "MySQL" THEN <<"DatabaseMySQLGenerator">>
        ELSE IF get_database_type(c) = "PostgreSQL"
             THEN <<"DatabasePostgreSQLGenerator">>
             ELSE << >>)
    \o <<"DatabaseDependenciesGenerator">>

\* Mutant: the routers are listed before the authentication service.
get_auth_generators_routes_first(c) ==
    << "SecurityGenerator", "CoreDepsGenerator", "UserModelGenerator",
       "UserSchemaGenerator", "UserCRUDGenerator" >>
    \o << "AuthRouterGenerator", "UserRouterGenerator", "ApiV1Generator" >>
    \o (IF get_auth_type(c) = "complete"
        THEN << "TokenModelGenerator", "TokenSchemaGenerator",
                "TokenCRUDGenerator" >>
        ELSE << >>)
    \o << "AuthServiceGenerator" >>
    \o (IF get_auth_type(c) = "complete"
        THEN << "EmailServiceGenerator", "EmailTemplateGenerator" >>
        ELSE << >>)

get_auth_generators(c) ==
    << "SecurityGenerator", "CoreDepsGenerator", "UserModelGenerator",
       "UserSchemaGenerator", "UserCRUDGenerator" >>
    \o (IF get_auth_type(c) = "complete"
        THEN << "TokenModelGenerator", "TokenSchemaGenerator",
                "TokenCRUDGenerator" >>
        ELSE << >>)
    \o << "AuthServiceGenerator", "AuthRouterGenerator",
          "UserRouterGenerator", "ApiV1Generator" >>
    \o (IF get_auth_type(c) = "complete"
        THEN << "EmailServiceGenerator", "EmailTemplateGenerator" >>
        ELSE << >>)

get_docker_generators ==
    << "DockerfileGenerator", "DockerComposeGenerator",
       "DockerignoreGenerator" >>

\* Mutant: the auth tests are listed whatever has_auth() says.
get_test_generators_auth_always(c) ==
    << "ConftestGenerator", "TestMainGenerator" >>
    \o << "TestAuthGenerator", "TestUsersGenerator" >>

get_test_generators(c) ==
    << "ConftestGenerator", "TestMainGenerator" >>
    \o (IF has_auth(c)
        THEN << "TestAuthGenerator", "TestUsersGenerator" >>
        ELSE << >>)

\* Mutant: the docker generators are listed whatever the docker toggle says.
initialize_generators_docker_always(c) ==
    get_base_config_generators
    \o get_database_generators(c)
    \o get_auth_generators(c)
    \o <<"MainGenerator">>
    \o get_docker_generators
    \o (IF has_testing(c) THEN get_test_generators(c) ELSE << >>)

initialize_generators(c) ==
    get_base_config_generators
    \o get_database_generators(c)
    \o get_auth_generators(c)
    \o <<"MainGenerator">>
    \o (IF has_docker(c) THEN get_docker_generators ELSE << >>)
    \o (IF has_testing(c) THEN get_test_generators(c) ELSE << >>)

----------------------------------------------------------------------------
(* FileOperations: writes into the destination tree.                       *)
(* A tree is [files, dirs, err]; err # "none" once a write has raised.     *)

Tree(f, d) == [files |-> f, dirs |-> d, err |-> "none"]

\* The directories mkdir(parents=True) creates for the parent of path p.
Ancestors(p) == {SubSeq(p, 1, k) : k \in 1..(Len(p) - 1)}

\* Path.exists()
Exists(t, p) == p \in DOMAIN t.files \/ p \in t.dirs

\* full_path.write_text(content)
WriteText(t, p, content) ==
    IF p \in t.dirs
    THEN [t EXCEPT !.err = "IsADirectoryError"]
    ELSE [t EXCEPT !.files = [q \in (DOMAIN t.files) \cup {p} |->
                                IF q = p THEN content ELSE t.files[q]]]

\* full_path.parent.mkdir(parents=True, exist_ok=True): a parent that is a
\* file makes it raise, and nothing is created.
mkdir_parents(t, p) ==
    IF SubSeq(p, 1, Len(p) - 1) \in DOMAIN t.files
    THEN [t EXCEPT !.err = "FileExistsError"]
    ELSE IF Ancestors(p) \cap DOMAIN t.files # {}
    THEN [t EXCEPT !.err = "NotADirectoryError"]
    ELSE [t EXCEPT !.dirs = t.dirs \cup Ancestors(p)]

\* Path.is_dir(): the root of the tree is one.
is_dir(t, d) == d = << >> \/ d \in t.dirs

\* Path.mkdir(parents=..., exist_ok=True) on the directory d: an existing
\* directory is left alone; a regular file at d raises FileExistsError, a
\* regular file among its parents NotADirectoryError, and without
\* parents a missing parent FileNotFoundError; nothing is created then.
mkdir(t, d, parents) ==
    IF is_dir(t, d) THEN t
    ELSE IF d \in DOMAIN t.files
    THEN [t EXCEPT !.err = "FileExistsError"]
    ELSE IF Ancestors(d) \cap DOMAIN t.files # {}
    THEN [t EXCEPT !.err = "NotADirectoryError"]
    ELSE IF parents
    THEN [t EXCEPT !.dirs = t.dirs \cup {d} \cup Ancestors(d)]
    ELSE IF ~is_dir(t, SubSeq(d, 1, Len(d) - 1))
    THEN [t EXCEPT !.err = "FileNotFoundError"]
    ELSE [t EXCEPT !.dirs = t.dirs \cup {d}]

\* Path.touch(exist_ok=True): an existing file or directory is left as it
\* is, a missing file is created empty when its parent directory exists.
touch(t, p) ==
    IF Exists(t, p) THEN t
    ELSE IF Ancestors(p) \cap DOMAIN t.files # {}
    THEN [t EXCEPT !.err = "NotADirectoryError"]
    ELSE IF ~is_dir(t, SubSeq(p, 1, Len(p) - 1))
    THEN [t EXCEPT !.err = "FileNotFoundError"]
    ELSE [t EXCEPT !.files = [q \in (DOMAIN t.files) \cup {p} |->
                                IF q = p THEN << >> ELSE t.files[q]]]

\* Mutant: an existing path is refused even when overwrite is asked for.
create_file_never_overwrites(t, p, content, overwrite) ==
    IF Exists(t, p)
    THEN [t EXCEPT !.err = "FileExistsError"]
    ELSE LET made == mkdir_parents(t, p)
         IN  IF made.err # "none" THEN made ELSE WriteText(made, p, content)

\* Mutant: the overwrite flag is not looked at.
create_file_always_overwrites(t, p, content, overwrite) ==
    LET made == mkdir_parents(t, p)
    IN  IF made.err # "none" THEN made ELSE WriteText(made, p, content)

create_file(t, p, content, overwrite) ==
    IF Exists(t, p) /\ ~overwrite
    THEN [t EXCEPT !.err = "FileExistsError"]
    ELSE LET made == mkdir_parents(t, p)
         IN  IF made.err # "none" THEN made ELSE WriteText(made, p, content)

\* A text is the sequence of its characters. A character is a string:
\* "\n" is the line feed, and the other characters that end a line are
\* named "CR" (\r), "VT" (\x0b), "FF" (\x0c), "FS" (\x1c), "GS" (\x1d),
\* "RS" (\x1e), "NEL" (\x85), "LS" (\u2028) and "PS" (\u2029). Texts are
\* written as they are given (the line feed is the line separator of the
\* platform).
LineBoundaries ==
    {"\n", "CR", "VT", "FF", "FS", "GS", "RS", "NEL", "LS", "PS"}

\* full_path.read_text(): the file is read with universal newlines, so
\* that "\r\n" and a lone "\r" both arrive as "\n".
RECURSIVE read_text(_)
read_text(s) ==
    IF s = << >> THEN << >>
    ELSE IF Head(s) = "CR"
    THEN <<"\n">> \o read_text(IF Len(s) >= 2 /\ s[2] = "\n"
                               THEN SubSeq(s, 3, Len(s)) ELSE Tail(s))
    ELSE <<Head(s)>> \o read_text(Tail(s))

\* str.splitlines(keepends=True): the lines with their line ends; the
\* last line may have none, and "\r\n" ends a line as a whole.
RECURSIVE splitlines(_)
splitlines(s) ==
    IF s = << >> THEN << >>
    ELSE IF \A i \in 1..Len(s) : s[i] \notin LineBoundaries THEN <<s>>
    ELSE LET k == CHOOSE i \in 1..Len(s) :
                     /\ s[i] \in LineBoundaries
                     /\ \A j \in 1..(i - 1) : s[j] \notin LineBoundaries
             end == IF s[k] = "CR" /\ k < Len(s) /\ s[k + 1] = "\n"
                    THEN k + 1 ELSE k
         IN  <<SubSeq(s, 1, end)>> \o splitlines(SubSeq(s, end + 1, Len(s)))

\* ''.join(lines)
RECURSIVE join(_)
join(lines) ==
    IF lines = << >> THEN << >> ELSE Head(lines) \o join(Tail(lines))

\* content if content.endswith('\n') else content + '\n'
ensure_newline(content) ==
    IF content # << >> /\ content[Len(content)] = "\n"
    THEN content
    ELSE content \o <<"\n">>

\* pattern in line
str_in(pattern, line) ==
    \E i \in 1..(Len(line) - Len(pattern) + 1) :
        SubSeq(line, i, i + Len(pattern) - 1) = pattern

\* str.replace(old, new, count): the occurrences of old are replaced from
\* the left, without overlap, at most count of them when count >= 0; an
\* empty old matches before every character and at the end.
RECURSIVE str_replace(_, _, _, _)
str_replace(s, old, new, count) ==
    IF count = 0 THEN s
    ELSE IF old = << >>
    THEN IF s = << >> THEN new
         ELSE new \o <<Head(s)>> \o str_replace(Tail(s), old, new, count - 1)
    ELSE IF Len(s) < Len(old) THEN s
    ELSE IF SubSeq(s, 1, Len(old)) = old
    THEN new \o str_replace(SubSeq(s, Len(old) + 1, Len(s)), old, new,
                            count - 1)
    ELSE <<Head(s)>> \o str_replace(Tail(s), old, new, count)

\* What the edit methods raise before they change anything: the path
\* does not exist, or it is a directory and cannot be opened.
edit_error(t, p) ==
    IF ~Exists(t, p) THEN "FileNotFoundError"
    ELSE IF p \in t.dirs THEN "IsADirectoryError"
    ELSE "none"

\* append_content: the content is written at the end of the file, after a
\* line break when newline is set.
append_content(t, p, content, newline) ==
    IF edit_error(t, p) # "none"
    THEN [t EXCEPT !.err = edit_error(t, p)]
    ELSE WriteText(t, p, t.files[p]
                         \o (IF newline THEN <<"\n">> ELSE << >>)
                         \o content)

\* insert_content: the content becomes a line of its own before the line
\* of index position; a negative position counts from the end, and the
\* position is kept within the lines of the file.
insert_content(t, p, content, position) ==
    IF edit_error(t, p) # "none"
    THEN [t EXCEPT !.err = edit_error(t, p)]
    ELSE LET lines == splitlines(read_text(t.files[p]))
             counted == IF position < 0 THEN Len(lines) + position + 1
                        ELSE position
             pos == IF counted < 0 THEN 0
                    ELSE IF counted > Len(lines) THEN Len(lines)
                    ELSE counted
         IN  WriteText(t, p,
                 join(SubSeq(lines, 1, pos)
                      \o <<ensure_newline(content)>>
                      \o SubSeq(lines, pos + 1, Len(lines))))

\* The loop of insert_after_pattern with first_match unset: the content
\* follows every line that holds the pattern.
RECURSIVE after_every(_, _, _)
after_every(lines, pattern, content) ==
    IF lines = << >> THEN << >>
    ELSE <<Head(lines)>>
         \o (IF str_in(pattern, Head(lines))
             THEN <<ensure_newline(content)>> ELSE << >>)
         \o after_every(Tail(lines), pattern, content)

\* The index of the first line that holds the pattern, 0 when none does.
first_match_index(lines, pattern) ==
    IF \E i \in 1..Len(lines) : str_in(pattern, lines[i])
    THEN CHOOSE i \in 1..Len(lines) :
            /\ str_in(pattern, lines[i])
            /\ \A j \in 1..(i - 1) : ~str_in(pattern, lines[j])
    ELSE 0

\* insert_after_pattern: with first_match the loop stops at the first
\* line that holds the pattern and extends the new lines by
\* lines[len(new_lines):], taken after the content was added: the line
\* that followed the match is not copied.
insert_after_pattern(t, p, pattern, content, first_match) ==
    IF edit_error(t, p) # "none"
    THEN [t EXCEPT !.err = edit_error(t, p)]
    ELSE LET lines == splitlines(read_text(t.files[p]))
             i == first_match_index(lines, pattern)
         IN  IF i = 0
             THEN [t EXCEPT !.err = "ValueError"]
             ELSE IF first_match
             THEN WriteText(t, p,
                      join(SubSeq(lines, 1, i)
                           \o <<ensure_newline(content)>>
                           \o SubSeq(lines, i + 2, Len(lines))))
             ELSE WriteText(t, p, join(after_every(lines, pattern, content)))

\* The loop of insert_before_pattern with first_match unset: the content
\* precedes every line that holds the pattern.
RECURSIVE before_every(_, _, _)
before_every(lines, pattern, content) ==
    IF lines = << >> THEN << >>
    ELSE (IF str_in(pattern, Head(lines))
          THEN <<ensure_newline(content)>> ELSE << >>)
         \o <<Head(lines)>>
         \o before_every(Tail(lines), pattern, content)

\* insert_before_pattern: with first_match the rest of the lines is
\* lines[len(new_lines) - 1:], every line after the match.
insert_before_pattern(t, p, pattern, content, first_match) ==
    IF edit_error(t, p) # "none"
    THEN [t EXCEPT !.err = edit_error(t, p)]
    ELSE LET lines == splitlines(read_text(t.files[p]))
             i == first_match_index(lines, pattern)
         IN  IF i = 0
             THEN [t EXCEPT !.err = "ValueError"]
             ELSE IF first_match
             THEN WriteText(t, p,
                      join(SubSeq(lines, 1, i - 1)
                           \o <<ensure_newline(content)>>
                           \o SubSeq(lines, i, Len(lines))))
             ELSE WriteText(t, p, join(before_every(lines, pattern, content)))

\* replace_content: the text read from the file with old_content
\* replaced.
replace_content(t, p, old_content, new_content, count) ==
    IF edit_error(t, p) # "none"
    THEN [t EXCEPT !.err = edit_error(t, p)]
    ELSE WriteText(t, p,
             str_replace(read_text(t.files[p]), old_content, new_content,
                         count))

\* open(file_path, 'w') and f.write(content): the file is created or
\* truncated in a directory that exists; no directory is made.
open_write(t, p, content) ==
    IF Ancestors(p) \cap DOMAIN t.files # {}
    THEN [t EXCEPT !.err = "NotADirectoryError"]
    ELSE IF ~is_dir(t, SubSeq(p, 1, Len(p) - 1))
    THEN [t EXCEPT !.err = "FileNotFoundError"]
    ELSE WriteText(t, p, content)

\* DeploymentFileGenerator.generate(content, filename, subdir): the
\* directory subdir, when one is given (<< >> stands for none), is made
\* with its parents; the file is then written whether it exists or not.
deployment_generate(t, content, filename, subdir) ==
    IF subdir # << >>
    THEN LET made == mkdir(t, subdir, TRUE)
         IN  IF made.err # "none" THEN made
             ELSE open_write(made, subdir \o filename, content)
    ELSE open_write(t, filename, content)

\* A write request of a generator: one call of create_file.
Write(p, content, overwrite) ==
    [path |-> p, content |-> content, overwrite |-> overwrite]

\* The calls of create_file a handler makes, in order, up to the first
\* one that raises.
RECURSIVE ApplyWrites(_, _)
ApplyWrites(t, ws) ==
    IF ws = << >> \/ t.err # "none" THEN t
    ELSE ApplyWrites(create_file(t, Head(ws).path, Head(ws).content,
                                 Head(ws).overwrite), Tail(ws))

Flag(b) == IF b THEN "yes" ELSE "no"

----------------------------------------------------------------------------
(* The generators: the create_file calls generate() makes under a          *)
(* configuration. A content is a tuple naming the template and the         *)
(* configuration values the template branches on.                          *)

GitignoreGenerator(c) ==
    << Write(<<".gitignore">>, <<"gitignore">>, TRUE) >>

ConfigBaseGenerator(c) ==
    << Write(<<"app", "core", "config", "base.py">>, <<"config_base">>, TRUE) >>

ConfigAppGenerator(c) ==
    << Write(<<"app", "core", "config", "modules", "app.py">>,
             <<"config_app">>, TRUE) >>

ConfigLoggerGenerator(c) ==
    << Write(<<"app", "core", "config", "modules", "logger.py">>,
             <<"config_logger">>, TRUE) >>

LoggerManagerGenerator(c) ==
    << Write(<<"app", "core", "logger.py">>, <<"logger_manager">>, TRUE) >>

ConfigCorsGenerator(c) ==
    IF ~has_cors(c) THEN << >>
    ELSE << Write(<<"app", "core", "config", "modules", "cors.py">>,
                  <<"config_cors">>, TRUE) >>

ConfigDatabaseGenerator(c) ==
    IF ~has_database(c) THEN << >>
    ELSE << Write(<<"app", "core", "config", "modules", "database.py">>,
                  <<"config_database", get_database_type(c)>>, TRUE) >>

ConfigJwtGenerator(c) ==
    IF ~has_auth(c) THEN << >>
    ELSE << Write(<<"app", "core", "config", "modules", "jwt.py">>,
                  <<"config_jwt",
                    Flag(get_auth_type(c) = "complete")>>, TRUE) >>

ConfigEmailGenerator(c) ==
    IF get_auth_type(c) # "complete" THEN << >>
    ELSE << Write(<<"app", "core", "config", "modules", "email.py">>,
                  <<"config_email">>, TRUE) >>

\* The settings file names the configuration modules it imports.
ConfigSettingsGenerator(c) ==
    << Write(<<"app", "core", "config", "settings.py">>,
             <<"settings", "app", "logging", "database">>
             \o (IF has_auth(c) THEN <<"jwt">> ELSE << >>)
             \o (IF get_auth_type(c) = "complete" THEN <<"email">> ELSE << >>)
             \o (IF has_cors(c) THEN <<"cors">> ELSE << >>),
             TRUE) >>

DatabaseConnectionGenerator(c) ==
    IF ~has_database(c) THEN << >>
    ELSE << Write(<<"app", "core", "database", "connection.py">>,
                  <<"db_connection", get_database_type(c)>>, TRUE) >>

DatabasePostgreSQLGenerator(c) ==
    IF ~has_database(c) THEN << >>
    ELSE IF get_database_type(c) # "PostgreSQL" THEN << >>
    ELSE << Write(<<"app", "core", "database", "postgresql.py">>,
                  <<"db_postgresql">>, TRUE) >>

DatabaseDependenciesGenerator(c) ==
    IF ~has_database(c) THEN << >>
    ELSE IF ~has_auth(c) THEN << >>
    ELSE << Write(<<"app", "core", "database", "dependencies.py">>,
                  <<"db_dependencies", get_database_type(c),
                    get_orm_type(c),
                    Flag(get_auth_type(c) = "complete")>>, TRUE) >>

CoreDepsGenerator(c) ==
    IF ~has_auth(c) THEN << >>
    ELSE << Write(<<"app", "core", "deps.py">>, <<"core_deps">>, TRUE) >>

UserModelGenerator(c) ==
    IF get_orm_type(c) \in {"SQLModel", "SQLAlchemy"}
    THEN << Write(<<"app", "models", "user.py">>,
                  <<"user_model", get_orm_type(c),
                    Flag(get_auth_type(c) = "basic")>>, TRUE) >>
    ELSE << >>

UserSchemaGenerator(c) ==
    << Write(<<"app", "schemas", "user.py">>,
             IF get_auth_type(c) = "basic"
             THEN <<"user_schemas", "basic">>
             ELSE <<"user_schemas", "complete">>, TRUE) >>

UserCRUDGenerator(c) ==
    IF ~has_auth(c) THEN << >>
    ELSE IF ~has_database(c) THEN << >>
    ELSE IF get_orm_type(c) \in {"SQLModel", "SQLAlchemy"}
    THEN << Write(<<"app", "crud", "user.py">>,
                  <<"user_crud", get_orm_type(c),
                    Flag(get_auth_type(c) = "basic")>>, TRUE) >>
    ELSE << >>

TokenModelGenerator(c) ==
    IF get_orm_type(c) \in {"SQLModel", "SQLAlchemy"}
    THEN << Write(<<"app", "models", "token.py">>,
                  <<"token_model", get_orm_type(c)>>, TRUE) >>
    ELSE << >>

TokenSchemaGenerator(c) ==
    << Write(<<"app", "schemas", "token.py">>, <<"token_schemas">>, TRUE) >>

TokenCRUDGenerator(c) ==
    IF get_orm_type(c) \in {"SQLModel", "SQLAlchemy"}
    THEN << Write(<<"app", "crud", "token.py">>,
                  <<"token_crud", get_orm_type(c)>>, TRUE) >>
    ELSE << >>

AuthServiceGenerator(c) ==
    IF ~has_auth(c) THEN << >>
    ELSE << Write(<<"app", "services", "auth.py">>,
                  IF get_auth_type(c) = "basic"
                  THEN <<"auth_service", "basic">>
                  ELSE <<"auth_service", "complete">>, TRUE) >>

AuthRouterGenerator(c) ==
    IF ~has_auth(c) THEN << >>
    ELSE << Write(<<"app", "routers", "v1", "auth.py">>,
                  IF get_auth_type(c) = "basic"
                  THEN <<"auth_router", "basic">>
                  ELSE <<"auth_router", "complete">>, TRUE) >>

UserRouterGenerator(c) ==
    IF ~has_auth(c) THEN << >>
    ELSE << Write(<<"app", "routers", "v1", "users.py">>,
                  <<"user_router">>, TRUE) >>

ApiV1Generator(c) ==
    IF ~has_auth(c) THEN << >>
    ELSE << Write(<<"app", "routers", "v1", "__init__.py">>,
                  <<"api_v1">>, TRUE) >>

MainGenerator(c) ==
    << Write(<<"app", "main.py">>,
             IF (IF has_auth(c) THEN get_auth_type(c) ELSE NULL)
                    \notin {NULL, ""}
             THEN <<"main", "with_auth", Flag(has_cors(c))>>
             ELSE <<"main", "basic", Flag(has_cors(c))>>, TRUE) >>

DockerfileGenerator(c) ==
    << Write(<<"Dockerfile">>, <<"dockerfile", get_database_type(c)>>, TRUE) >>

DockerComposeGenerator(c) ==
    << Write(<<"docker-compose.yml">>,
             <<"docker_compose", get_database_type(c)>>, TRUE) >>

DockerignoreGenerator(c) ==
    << Write(<<".dockerignore">>, <<"dockerignore">>, TRUE) >>

TestUsersGenerator(c) ==
    IF ~has_testing(c) \/ ~has_auth(c) THEN << >>
    ELSE << Write(<<"tests", "api", "test_users.py">>,
                  <<"test_users">>, TRUE) >>

\* Generators the orchestrator imports whose modules are not part of the
\* sources at hand: the MySQL manager mirrors the PostgreSQL one, the
\* others have no artifact in the model.
UnavailableGenerator(s, c) ==
    IF s = "DatabaseMySQLGenerator"
       /\ has_database(c) /\ get_database_type(c) = "MySQL"
    THEN << Write(<<"app", "core", "database", "mysql.py">>,
                  <<"db_mysql">>, TRUE) >>
    ELSE << >>

\* generator.generate(): dispatch on the generator's class.
Generate(s, c) ==
    CASE s = "GitignoreGenerator" -> GitignoreGenerator(c)
      [] s = "ConfigBaseGenerator" -> ConfigBaseGenerator(c)
      [] s = "ConfigAppGenerator" -> ConfigAppGenerator(c)
      [] s = "ConfigLoggerGenerator" -> ConfigLoggerGenerator(c)
      [] s = "LoggerManagerGenerator" -> LoggerManagerGenerator(c)
      [] s = "ConfigCorsGenerator" -> ConfigCorsGenerator(c)
      [] s = "ConfigDatabaseGenerator" -> ConfigDatabaseGenerator(c)
      [] s = "ConfigJwtGenerator" -> ConfigJwtGenerator(c)
      [] s = "ConfigEmailGenerator" -> ConfigEmailGenerator(c)
      [] s = "ConfigSettingsGenerator" -> ConfigSettingsGenerator(c)
      [] s = "DatabaseConnectionGenerator" -> DatabaseConnectionGenerator(c)
      [] s = "DatabasePostgreSQLGenerator" -> DatabasePostgreSQLGenerator(c)
      [] s = "DatabaseDependenciesGenerator" -> DatabaseDependenciesGenerator(c)
      [] s = "CoreDepsGenerator" -> CoreDepsGenerator(c)
      [] s = "UserModelGenerator" -> UserModelGenerator(c)
      [] s = "UserSchemaGenerator" -> UserSchemaGenerator(c)
      [] s = "UserCRUDGenerator" -> UserCRUDGenerator(c)
      [] s = "TokenModelGenerator" -> TokenModelGenerator(c)
      [] s = "TokenSchemaGenerator" -> TokenSchemaGenerator(c)
      [] s = "TokenCRUDGenerator" -> TokenCRUDGenerator(c)
      [] s = "AuthServiceGenerator" -> AuthServiceGenerator(c)
      [] s = "AuthRouterGenerator" -> AuthRouterGenerator(c)
      [] s = "UserRouterGenerator" -> UserRouterGenerator(c)
      [] s = "ApiV1Generator" -> ApiV1Generator(c)
      [] s = "MainGenerator" -> MainGenerator(c)
      [] s = "DockerfileGenerator" -> DockerfileGenerator(c)
      [] s = "DockerComposeGenerator" -> DockerComposeGenerator(c)
      [] s = "DockerignoreGenerator" -> DockerignoreGenerator(c)
      [] s = "TestUsersGenerator" -> TestUsersGenerator(c)
      [] OTHER -> UnavailableGenerator(s, c)

----------------------------------------------------------------------------
(* StructureGenerator, ResponseGenerator and AlembicGenerator.             *)

\* The directories create_project_structure makes.
structure_directories(c) ==
    << <<"app">>, <<"app", "core">>, <<"app", "core", "config">>,
       <<"app", "core", "config", "modules">>, <<"app", "decorators">>,
       <<"app", "schemas">>, <<"app", "utils">>, <<"script">> >>
    \o (IF has_database(c)
        THEN << <<"app", "core", "database">>, <<"app", "crud">>,
                <<"app", "models">> >>
        ELSE << >>)
    \o (IF has_auth(c)
        THEN << <<"app", "services">>, <<"app", "routers">>,
                <<"app", "routers", "v1">> >>
        ELSE << >>)
    \o (IF has_migration(c) THEN << <<"alembic">> >> ELSE << >>)
    \o (IF has_testing(c)
        THEN << <<"tests">>, <<"tests", "api">>, <<"tests", "unit">> >>
        ELSE << >>)

\* dir_path.mkdir(parents=True, exist_ok=True) for every directory, in
\* order: the loop ends at the first mkdir that raises.
RECURSIVE make_directories(_, _)
make_directories(t, ds) ==
    IF ds = << >> \/ t.err # "none" THEN t
    ELSE make_directories(mkdir(t, Head(ds), TRUE), Tail(ds))

\* The content of an empty __init__.py placeholder.
EMPTY == << >>

create_database_init(c) ==
    << Write(<<"app", "core", "database", "__init__.py">>,
             <<"database_init", get_database_type(c)>>, TRUE) >>

create_config_init ==
    << Write(<<"app", "core", "config", "__init__.py">>,
             <<"config_init", "settings">>, TRUE) >>

\* The placeholder paths of _create_init_files, in the order of the list.
init_files(c) ==
    << <<"app", "__init__.py">>, <<"app", "core", "__init__.py">>,
       <<"app", "core", "config", "__init__.py">>,
       <<"app", "decorators", "__init__.py">>,
       <<"app", "schemas", "__init__.py">>,
       <<"app", "utils", "__init__.py">> >>
    \o (IF has_database(c)
        THEN << <<"app", "crud", "__init__.py">>,
                <<"app", "models", "__init__.py">> >>
        ELSE << >>)
    \o (IF has_auth(c)
        THEN << <<"app", "services", "__init__.py">>,
                <<"app", "routers", "__init__.py">>,
                <<"app", "routers", "v1", "__init__.py">> >>
        ELSE << >>)
    \o (IF has_testing(c)
        THEN << <<"tests", "__init__.py">>, <<"tests", "api", "__init__.py">>,
                <<"tests", "unit", "__init__.py">> >>
        ELSE << >>)

\* Mutant: the config __init__.py is written before the placeholders.
create_init_files_config_first(c) ==
    (IF has_database(c) THEN create_database_init(c) ELSE << >>)
    \o create_config_init
    \o [i \in DOMAIN init_files(c) |-> Write(init_files(c)[i], EMPTY, FALSE)]

\* _create_init_files: the database __init__.py is written while the list
\* is built, the placeholders are created without overwrite, and the
\* config __init__.py is rewritten last.
create_init_files(c) ==
    (IF has_database(c) THEN create_database_init(c) ELSE << >>)
    \o [i \in DOMAIN init_files(c) |-> Write(init_files(c)[i], EMPTY, FALSE)]
    \o create_config_init

\* The modules/__init__.py names the configuration modules it imports.
create_config_modules_init(c) ==
    << Write(<<"app", "core", "config", "modules", "__init__.py">>,
             <<"modules_init", "app", "logger">>
             \o (IF has_database(c) THEN <<"database">> ELSE << >>)
             \o (IF has_auth(c) THEN <<"jwt">> ELSE << >>)
             \o (IF get_auth_type(c) = "complete" THEN <<"email">> ELSE << >>)
             \o (IF has_cors(c) THEN <<"cors">> ELSE << >>),
             TRUE) >>

ResponseGenerator ==
    << Write(<<"app", "utils", "response.py">>, <<"response">>, TRUE) >>

\* _create_alembic_structure: two mkdir, four files (env.py only for a
\* known ORM), then versions/.gitkeep is touched.
create_alembic_structure(t, c) ==
    LET alembic_dir == mkdir(t, <<"alembic">>, FALSE)
        made == IF alembic_dir.err # "none" THEN alembic_dir
                ELSE mkdir(alembic_dir, <<"alembic", "versions">>, FALSE)
        written == ApplyWrites(made,
            << Write(<<"alembic.ini">>,
                     <<"alembic_ini", get_database_type(c)>>, TRUE) >>
            \o (IF get_orm_type(c) \in {"SQLModel", "SQLAlchemy"}
                THEN << Write(<<"alembic", "env.py">>,
                              <<"alembic_env", get_orm_type(c)>>, TRUE) >>
                ELSE << >>)
            \o << Write(<<"alembic", "script.py.mako">>,
                        <<"alembic_mako">>, TRUE),
                  Write(<<"alembic", "README.md">>,
                        <<"alembic_readme">>, TRUE) >>)
        gitkeep == <<"alembic", "versions", ".gitkeep">>
    IN  IF written.err # "none" THEN written ELSE touch(written, gitkeep)

\* Mutant: an existing alembic/env.py is not looked for.
alembic_generate_no_check(t, c) ==
    IF ~has_database(c) THEN t
    ELSE IF ~has_migration(c) THEN t
    ELSE create_alembic_structure(t, c)

\* AlembicGenerator.generate
alembic_generate(t, c) ==
    IF ~has_database(c) THEN t
    ELSE IF ~has_migration(c) THEN t
    ELSE IF Exists(t, <<"alembic", "env.py">>) THEN t
    ELSE create_alembic_structure(t, c)

\* The generators docker_command runs, in order.
docker_command_generators ==
    << "DockerfileGenerator", "DockerComposeGenerator",
       "DockerignoreGenerator" >>

----------------------------------------------------------------------------
(* The state machine: invocations run one after the other on one tree.     *)

\* Paths that may already be occupied by a directory in the destination.
Obstacles == { {}, {<<"app", "main.py">>, <<"docker-compose.yml">>} }

Init ==
    /\ config \in Configs
    /\ files = << >>
    /\ \E o \in Obstacles : dirs = o \cup UNION {Ancestors(p) : p \in o}
    /\ entry = "none"
    /\ pc = "idle"
    /\ plan = << >>
    /\ idx = 1
    /\ executed = << >>
    /\ err = "none"
    /\ outcome = "none"
    /\ runs = 0
    /\ firstPlan = << >>
    /\ prevEntry = "none"
    /\ prevOutcome = "none"
    /\ prevFiles = << >>
    /\ registry = << >>
    /\ call = << >>
    /\ answer = "none"
    /\ asked = 0

Terminated == pc \in {"idle", "done", "failed"}

\* A new invocation begins; the previous one is remembered.
Begin(e, position) ==
    /\ Terminated
    /\ runs < MaxRuns
    /\ runs' = runs + 1
    /\ entry' = e
    /\ pc' = position
    /\ plan' = << >>
    /\ idx' = 1
    /\ executed' = << >>
    /\ err' = "none"
    /\ outcome' = "running"
    /\ prevEntry' = entry
    /\ prevOutcome' = outcome
    /\ prevFiles' = files
    /\ UNCHANGED <<config, files, dirs, firstPlan>>
    /\ UNCHANGED aux

\* The entry points that are commands: they end with an exit status.
Commands == {"docker", "init", "init_noninteractive"}

\* The entry points that go through create_project_structure.
ProjectEntries == {"project", "init", "init_noninteractive"}

\* Mutant: the exception is reported and swallowed by the command.
Raise_swallowed(e) ==
    /\ err' = e
    /\ pc' = "failed"
    /\ outcome' = IF entry \in Commands THEN "exit0" ELSE "raised"

\* An exception leaves the invocation: the commands turn it into exit
\* status 1, the library entry points let it reach their caller.
Raise(e) ==
    /\ err' = e
    /\ pc' = "failed"
    /\ outcome' = IF entry \in Commands THEN "exit1" ELSE "raised"

\* ProjectGenerator.generate: the configuration is loaded and validated,
\* then the structure is created.
StartProject ==
    /\ Terminated
    /\ runs < MaxRuns
    /\ runs' = runs + 1
    /\ entry' = "project"
    /\ plan' = << >>
    /\ idx' = 1
    /\ executed' = << >>
    /\ prevEntry' = entry
    /\ prevOutcome' = outcome
    /\ prevFiles' = files
    /\ IF load_config(config) # "none"
       THEN pc' = "failed" /\ err' = load_config(config)
                           /\ outcome' = "raised"
       ELSE IF validate_config(config) = "ValueError"
       THEN pc' = "failed" /\ err' = "ValueError" /\ outcome' = "raised"
       ELSE pc' = "dirs" /\ err' = "none" /\ outcome' = "running"
    /\ UNCHANGED <<config, files, dirs, firstPlan>>
    /\ UNCHANGED aux

\* GeneratorOrchestrator(project_path, config_reader).generate()
StartOrchestrator == Begin("orchestrator", "plan")

\* AlembicGenerator(project_path, config_reader).generate()
StartAlembic == Begin("alembic", "alembic")

\* Mutant: the docker toggle is not looked at.
DockerCommand_ignores_toggle ==
    /\ Terminated
    /\ runs < MaxRuns
    /\ runs' = runs + 1
    /\ entry' = "docker"
    /\ idx' = 1
    /\ executed' = << >>
    /\ prevEntry' = entry
    /\ prevOutcome' = outcome
    /\ prevFiles' = files
    /\ IF load_config(config) # "none"
       THEN /\ pc' = "failed"
            /\ err' = load_config(config)
            /\ outcome' = "exit1"
            /\ plan' = << >>
       ELSE IF FALSE
       THEN /\ pc' = "failed"
            /\ err' = "Exit"
            /\ outcome' = "exit1"
            /\ plan' = << >>
       ELSE /\ pc' = "exec"
            /\ err' = "none"
            /\ outcome' = "running"
            /\ plan' = docker_command_generators
    /\ UNCHANGED <<config, files, dirs, firstPlan>>
    /\ UNCHANGED aux

\* docker_command: load the configuration, refuse when docker is off.
DockerCommand ==
    /\ Terminated
    /\ runs < MaxRuns
    /\ runs' = runs + 1
    /\ entry' = "docker"
    /\ idx' = 1
    /\ executed' = << >>
    /\ prevEntry' = entry
    /\ prevOutcome' = outcome
    /\ prevFiles' = files
    /\ IF load_config(config) # "none"
       THEN /\ pc' = "failed"
            /\ err' = load_config(config)
            /\ outcome' = "exit1"
            /\ plan' = << >>
       ELSE IF ~has_docker(config)
       THEN /\ pc' = "failed"
            /\ err' = "Exit"
            /\ outcome' = "exit1"
            /\ plan' = << >>
       ELSE /\ pc' = "exec"
            /\ err' = "none"
            /\ outcome' = "running"
            /\ plan' = docker_command_generators
    /\ UNCHANGED <<config, files, dirs, firstPlan>>
    /\ UNCHANGED aux

\* create_project_structure: the mkdir loop.
CreateDirectories ==
    /\ pc = "dirs"
    /\ LET t == make_directories(Tree(files, dirs),
                                 structure_directories(config))
       IN  /\ dirs' = t.dirs
           /\ IF t.err = "none"
              THEN pc' = "init_files" /\ UNCHANGED <<err, outcome>>
              ELSE Raise(t.err)
    /\ UNCHANGED <<config, files, entry, plan, idx, executed, runs,
                   firstPlan, prevEntry, prevOutcome, prevFiles>>
    /\ UNCHANGED aux

\* A handler of the structure generator that writes ws and then moves on.
StructureStep(position, ws, next) ==
    /\ pc = position
    /\ LET t == ApplyWrites(Tree(files, dirs), ws)
       IN  /\ files' = t.files
           /\ dirs' = t.dirs
           /\ IF t.err = "none"
              THEN pc' = next /\ UNCHANGED <<err, outcome>>
              ELSE Raise(t.err)
    /\ UNCHANGED <<config, entry, plan, idx, executed, runs, firstPlan,
                   prevEntry, prevOutcome, prevFiles>>
    /\ UNCHANGED aux

CreateInitFiles ==
    StructureStep("init_files", create_init_files(config), "modules_init")

CreateConfigModulesInit ==
    StructureStep("modules_init", create_config_modules_init(config),
                  "response")

CreateResponseUtils ==
    StructureStep("response", ResponseGenerator, "plan")

\* Mutant: the list is collected without a fixed order (as from a set), so
\* that one construction may yield it forwards and another backwards.
BuildPlan_unordered ==
    /\ pc = "plan"
    /\ LET q == initialize_generators(config)
       IN  plan' \in {q, [i \in 1..Len(q) |-> q[Len(q) + 1 - i]]}
    /\ idx' = 1
    /\ pc' = "exec"
    /\ firstPlan' = IF firstPlan = << >> THEN plan' ELSE firstPlan
    /\ UNCHANGED <<config, files, dirs, entry, executed, err, outcome, runs,
                   prevEntry, prevOutcome, prevFiles>>
    /\ UNCHANGED aux

\* GeneratorOrchestrator.__init__: the generator list is built.
BuildPlan ==
    /\ pc = "plan"
    /\ plan' = initialize_generators(config)
    /\ idx' = 1
    /\ pc' = "exec"
    /\ firstPlan' = IF firstPlan = << >> THEN plan' ELSE firstPlan
    /\ UNCHANGED <<config, files, dirs, entry, executed, err, outcome, runs,
                   prevEntry, prevOutcome, prevFiles>>
    /\ UNCHANGED aux

\* Mutant: a generator that raises is noted and the loop goes on.
RunGenerator_keeps_going ==
    /\ pc = "exec"
    /\ idx <= Len(plan)
    /\ LET t == ApplyWrites(Tree(files, dirs), Generate(plan[idx], config))
       IN  /\ files' = t.files
           /\ dirs' = t.dirs
           /\ idx' = idx + 1
           /\ IF t.err = "none"
              THEN executed' = Append(executed, plan[idx]) /\ UNCHANGED err
              ELSE err' = t.err /\ UNCHANGED executed
    /\ UNCHANGED <<config, entry, pc, plan, outcome, runs, firstPlan,
                   prevEntry, prevOutcome, prevFiles>>
    /\ UNCHANGED aux

\* Mutant: a generator switches a feature on in the shared configuration.
RunGenerator_changes_config ==
    /\ pc = "exec"
    /\ idx <= Len(plan)
    /\ LET t == ApplyWrites(Tree(files, dirs), Generate(plan[idx], config))
       IN  /\ files' = t.files
           /\ dirs' = t.dirs
           /\ IF t.err = "none"
              THEN /\ executed' = Append(executed, plan[idx])
                   /\ idx' = idx + 1
                   /\ UNCHANGED <<pc, err, outcome>>
              ELSE /\ Raise(t.err)
                   /\ UNCHANGED <<executed, idx>>
    /\ config' = [config EXCEPT !.cors = TRUE]
    /\ UNCHANGED <<entry, plan, runs, firstPlan, prevEntry,
                   prevOutcome, prevFiles>>
    /\ UNCHANGED aux

\* Mutant: the loop walks the generator list from its end.
RunGenerator_from_end ==
    /\ pc = "exec"
    /\ idx <= Len(plan)
    /\ LET g == plan[Len(plan) + 1 - idx]
           t == ApplyWrites(Tree(files, dirs), Generate(g, config))
       IN  /\ files' = t.files
           /\ dirs' = t.dirs
           /\ IF t.err = "none"
              THEN /\ executed' = Append(executed, g)
                   /\ idx' = idx + 1
                   /\ UNCHANGED <<pc, err, outcome>>
              ELSE /\ Raise(t.err)
                   /\ UNCHANGED <<executed, idx>>
    /\ UNCHANGED <<config, entry, plan, runs, firstPlan, prevEntry,
                   prevOutcome, prevFiles>>
    /\ UNCHANGED aux

\* One turn of the loop of generate(): the next generator runs.
RunGenerator ==
    /\ pc = "exec"
    /\ idx <= Len(plan)
    /\ LET t == ApplyWrites(Tree(files, dirs), Generate(plan[idx], config))
       IN  /\ files' = t.files
           /\ dirs' = t.dirs
           /\ IF t.err = "none"
              THEN /\ executed' = Append(executed, plan[idx])
                   /\ idx' = idx + 1
                   /\ UNCHANGED <<pc, err, outcome>>
              ELSE /\ Raise(t.err)
                   /\ UNCHANGED <<executed, idx>>
    /\ UNCHANGED <<config, entry, plan, runs, firstPlan, prevEntry,
                   prevOutcome, prevFiles>>
    /\ UNCHANGED aux

\* The loop is over: generate() returns.
FinishPlan ==
    /\ pc = "exec"
    /\ idx > Len(plan)
    /\ IF entry \in ProjectEntries
       THEN pc' = "alembic" /\ UNCHANGED outcome
       ELSE /\ pc' = "done"
            /\ outcome' = IF entry \in Commands THEN "exit0" ELSE "returned"
    /\ UNCHANGED <<config, files, dirs, entry, plan, idx, executed, err,
                   runs, firstPlan, prevEntry, prevOutcome, prevFiles>>
    /\ UNCHANGED aux

\* _init_alembic, the last call of create_project_structure.
InitAlembic ==
    /\ pc = "alembic"
    /\ LET t == alembic_generate(Tree(files, dirs), config)
       IN  /\ files' = t.files
           /\ dirs' = t.dirs
           /\ IF t.err = "none"
              THEN /\ pc' = "done"
                   /\ outcome' = IF entry \in Commands THEN "exit0"
                                  ELSE "returned"
                   /\ UNCHANGED err
              ELSE Raise(t.err)
    /\ UNCHANGED <<config, entry, plan, idx, executed, runs, firstPlan,
                   prevEntry, prevOutcome, prevFiles>>
    /\ UNCHANGED aux

Next ==
    \/ StartProject
    \/ StartOrchestrator
    \/ DockerCommand
    \/ CreateDirectories
    \/ CreateInitFiles
    \/ CreateConfigModulesInit
    \/ CreateResponseUtils
    \/ BuildPlan
    \/ RunGenerator
    \/ FinishPlan
    \/ InitAlembic

Spec == Init /\ [][Next]_vars

----------------------------------------------------------------------------
(* The init command: execute_init over a project directory that may        *)
(* already hold a configuration file, hand-written or saved by an earlier  *)
(* init.                                                                   *)

\* ProjectConfig.exists
ProjectConfig_exists(c) == c.file

\* The answers to "What would you like to do?"; NULL is the None that
\* ask() returns when the question is interrupted.
Answers == {"Cancel", "Overwrite", "Update", NULL}

\* The choices of the questions "Database:", "ORM:" and "Authentication:".
DatabaseChoices ==
    {"PostgreSQL (Recommended)", "MySQL", "None - Skip database"}

OrmChoices == {"SQLModel (Recommended)", "SQLAlchemy"}

AuthChoices ==
    {"Complete JWT Auth (Recommended)",
     "Basic JWT Auth (login/register only)", "None - Skip authentication"}

\* choice.split(" (")[0]
ChoiceName(choice) ==
    CASE choice = "PostgreSQL (Recommended)" -> "PostgreSQL"
      [] choice = "SQLModel (Recommended)" -> "SQLModel"
      [] OTHER -> choice

\* What questionary.confirm(...).ask() returns: True, False, or None when
\* the question is interrupted.
ConfirmAnswers == {"True", "False", NULL}

\* The truth value of an answer, as `if answer` and the has_* getters of
\* the configuration see it: None counts as no.
truthy(x) == x = "True"

\* The answers to the configuration questions: every choice of each
\* select question or NULL when it is interrupted, and every answer to
\* each confirm question.
WizardAnswers ==
    [database : DatabaseChoices \cup {NULL}, orm : OrmChoices \cup {NULL},
     migration : ConfirmAnswers, auth : AuthChoices \cup {NULL},
     cors : ConfirmAnswers, testing : ConfirmAnswers,
     docker : ConfirmAnswers]

\* collect_database_config calls split on the answer to the database
\* question, unless the answer skips the database, and on the answer to
\* the ORM question: an interrupted question raises AttributeError.
collect_database_raises(a) ==
    IF a.database = NULL
    THEN "AttributeError"
    ELSE IF a.database # "None - Skip database" /\ a.orm = NULL
    THEN "AttributeError"
    ELSE "none"

\* collect_database_config: the database, the ORM and the migration tool.
collect_database_config(a) ==
    IF a.database = "None - Skip database"
    THEN [db |-> NULL, orm |-> NULL, migration |-> NULL]
    ELSE [db |-> ChoiceName(a.database), orm |-> ChoiceName(a.orm),
          migration |-> IF truthy(a.migration) THEN "Alembic" ELSE NULL]

\* Mutant: the refresh token flag is set for every authentication.
collect_auth_refresh_always(a, has_db) ==
    IF has_db /\ a.auth # NULL /\ a.auth # "None - Skip authentication"
    THEN IF a.auth = "Complete JWT Auth (Recommended)"
         THEN [type |-> "complete", refresh_token |-> TRUE]
         ELSE [type |-> "basic", refresh_token |-> TRUE]
    ELSE [type |-> "none", refresh_token |-> FALSE]

\* collect_features: the auth entry; the question is asked only with a
\* database.
collect_auth(a, has_db) ==
    IF has_db /\ a.auth # NULL /\ a.auth # "None - Skip authentication"
    THEN IF a.auth = "Complete JWT Auth (Recommended)"
         THEN [type |-> "complete", refresh_token |-> TRUE]
         ELSE [type |-> "basic", refresh_token |-> FALSE]
    ELSE [type |-> "none", refresh_token |-> FALSE]

\* The project_config execute_init builds from the answers. The answers
\* to the CORS, testing and Docker questions are stored as given (true,
\* false or null); the record holds their truth value, which is all that
\* has_cors, has_testing and has_docker tell apart.
project_config(a) ==
    LET d == collect_database_config(a)
        auth == collect_auth(a, d.db # NULL)
    IN  [file |-> FALSE, name |-> TRUE, features |-> TRUE,
         db |-> d.db, orm |-> d.orm, migration |-> d.migration,
         auth |-> auth.type, refresh |-> auth.refresh_token,
         cors |-> truthy(a.cors), testing |-> truthy(a.testing),
         docker |-> truthy(a.docker)]

\* The configurations the interactive init can build.
InitChoices ==
    {project_config(a) :
        a \in {w \in WizardAnswers : collect_database_raises(w) = "none"}}

\* What the questions of the interactive init end with: an exception, or
\* the configuration built from the answers.
WizardResults ==
    {[err |-> "none", config |-> c] : c \in InitChoices} \cup
    {[err |-> collect_database_raises(a), config |-> NoConfig] :
        a \in {w \in WizardAnswers : collect_database_raises(w) # "none"}}

\* save_config_file: project_name and features are always written, the
\* database entry only when there is one.
save_config_file(c) ==
    [c EXCEPT !.file = TRUE, !.name = TRUE, !.features = TRUE]

\* The try block of execute_init up to the structure: the configuration c
\* is saved, loaded and validated.
InitGenerate(c) ==
    /\ config' = save_config_file(c)
    /\ IF load_config(config') # "none"
       THEN pc' = "failed" /\ err' = load_config(config')
                           /\ outcome' = "exit1"
       ELSE IF validate_config(config') = "ValueError"
       THEN pc' = "failed" /\ err' = "ValueError" /\ outcome' = "exit1"
       ELSE pc' = "dirs" /\ err' = "none" /\ outcome' = "running"

\* The part of the start of an init invocation that does not depend on
\* the mode.
InitInvocation(e) ==
    /\ Terminated
    /\ runs < MaxRuns
    /\ runs' = runs + 1
    /\ entry' = e
    /\ plan' = << >>
    /\ idx' = 1
    /\ executed' = << >>
    /\ prevEntry' = entry
    /\ prevOutcome' = outcome
    /\ prevFiles' = files
    /\ UNCHANGED <<files, dirs, firstPlan, registry, call>>

\* The questions of the interactive init and what follows them: an
\* exception of the questions is raised before the try block, so that
\* nothing is saved and the command ends with status 1; otherwise the
\* configuration built from the answers is saved and generated.
AskQuestions ==
    /\ asked < MaxAsked
    /\ asked' = asked + 1
    /\ \E w \in WizardResults :
          IF w.err # "none"
          THEN /\ pc' = "failed"
               /\ err' = w.err
               /\ outcome' = "exit1"
               /\ UNCHANGED config
          ELSE InitGenerate(w.config)

\* Mutant: "Update" goes on to the questions like "Overwrite".
StartInit_update_regenerates ==
    /\ InitInvocation("init")
    /\ \E action \in IF ProjectConfig_exists(config) THEN Answers
                       ELSE {"none"} :
          /\ answer' = action
          /\ IF action = NULL \/ action = "Cancel"
             THEN /\ pc' = "done"
                  /\ err' = "none"
                  /\ outcome' = "exit0"
                  /\ UNCHANGED <<config, asked>>
             ELSE AskQuestions

\* execute_init(interactive=True): on an existing project the user is
\* asked first; only "Overwrite" goes on to the questions.
StartInit ==
    /\ InitInvocation("init")
    /\ \E action \in IF ProjectConfig_exists(config) THEN Answers
                       ELSE {"none"} :
          /\ answer' = action
          /\ IF action = NULL \/ action = "Cancel" \/ action = "Update"
             THEN /\ pc' = "done"
                  /\ err' = "none"
                  /\ outcome' = "exit0"
                  /\ UNCHANGED <<config, asked>>
             ELSE AskQuestions

\* execute_init(interactive=False): the default configuration, no question.
StartInitDefault ==
    /\ InitInvocation("init_noninteractive")
    /\ answer' = "none"
    /\ UNCHANGED asked
    /\ InitGenerate(DefaultConfig)

InitInit ==
    /\ config \in {NoConfig} \cup InvalidConfigs
    /\ files = << >>
    /\ dirs = {}
    /\ entry = "none"
    /\ pc = "idle"
    /\ plan = << >>
    /\ idx = 1
    /\ executed = << >>
    /\ err = "none"
    /\ outcome = "none"
    /\ runs = 0
    /\ firstPlan = << >>
    /\ prevEntry = "none"
    /\ prevOutcome = "none"
    /\ prevFiles = << >>
    /\ registry = << >>
    /\ call = << >>
    /\ answer = "none"
    /\ asked = 0

InitNext ==
    \/ StartInit
    \/ StartInitDefault
    \/ StartProject
    \/ DockerCommand
    \/ CreateDirectories
    \/ CreateInitFiles
    \/ CreateConfigModulesInit
    \/ CreateResponseUtils
    \/ BuildPlan
    \/ RunGenerator
    \/ FinishPlan
    \/ InitAlembic

InitSpec == InitInit /\ [][InitNext]_vars

----------------------------------------------------------------------------
(* The writers alone: a caller makes calls of FileOperations and of        *)
(* DeploymentFileGenerator on a small tree.                                *)

\* Number of calls made one after the other.
MaxCalls == 3

WriterPaths == {<<"a">>, <<"a", "b">>, <<"a", "b", "c">>, <<"d">>}

\* The texts written: one of them has two lines, the first ended by
\* "\r\n".
WriterContents == {<<"x">>, <<"y", "CR", "\n", "x">>}

\* The patterns searched for and the texts replaced.
WriterPatterns == {<<"x">>}

\* The line positions asked of insert_content.
WriterPositions == {0, 1, -1}

\* The counts asked of replace_content.
WriterCounts == {-1, 1}

\* The directories the tree may hold before the first call.
WriterDirs == { {}, {<<"a">>}, {<<"a">>, <<"a", "b">>} }

WriterInit ==
    /\ config = NoConfig
    /\ files = << >>
    /\ dirs \in WriterDirs
    /\ entry = "none"
    /\ pc = "idle"
    /\ plan = << >>
    /\ idx = 1
    /\ executed = << >>
    /\ err = "none"
    /\ outcome = "none"
    /\ runs = 0
    /\ firstPlan = << >>
    /\ prevEntry = "none"
    /\ prevOutcome = "none"
    /\ prevFiles = << >>
    /\ registry = << >>
    /\ call = << >>
    /\ answer = "none"
    /\ asked = 0

\* One call FileOperations.create_file(path, content, overwrite=...).
CreateFile ==
    /\ runs < MaxCalls
    /\ \E p \in WriterPaths, content \in WriterContents,
          overwrite \in BOOLEAN :
          LET t == create_file(Tree(files, dirs), p, content, overwrite)
          IN  /\ files' = t.files
              /\ dirs' = t.dirs
              /\ err' = t.err
              /\ outcome' = IF t.err = "none" THEN "returned" ELSE "raised"
              /\ call' = << [path |-> p, content |-> content,
                             overwrite |-> overwrite,
                             before |-> Tree(files, dirs)] >>
    /\ runs' = runs + 1
    /\ entry' = "create_file"
    /\ prevFiles' = files
    /\ UNCHANGED <<config, pc, plan, idx, executed, firstPlan, prevEntry,
                   prevOutcome, registry, answer,
                   asked>>

\* What a call of a method other than create_file leaves: the tree and
\* the error of the call.
EditCall(name, t) ==
    /\ runs < MaxCalls
    /\ files' = t.files
    /\ dirs' = t.dirs
    /\ err' = t.err
    /\ outcome' = IF t.err = "none" THEN "returned" ELSE "raised"
    /\ call' = << >>
    /\ runs' = runs + 1
    /\ entry' = name
    /\ prevFiles' = files
    /\ UNCHANGED <<config, pc, plan, idx, executed, firstPlan, prevEntry,
                   prevOutcome, registry, answer, asked>>

\* One call FileOperations.append_content(path, content, newline=...).
AppendContent ==
    \E p \in WriterPaths, content \in WriterContents, newline \in BOOLEAN :
        EditCall("append_content",
                 append_content(Tree(files, dirs), p, content, newline))

\* One call FileOperations.insert_content(path, content, position).
InsertContent ==
    \E p \in WriterPaths, content \in WriterContents,
       position \in WriterPositions :
        EditCall("insert_content",
                 insert_content(Tree(files, dirs), p, content, position))

\* One call FileOperations.insert_after_pattern(path, pattern, content,
\* first_match=...).
InsertAfterPattern ==
    \E p \in WriterPaths, pattern \in WriterPatterns,
       content \in WriterContents, first_match \in BOOLEAN :
        EditCall("insert_after_pattern",
                 insert_after_pattern(Tree(files, dirs), p, pattern, content,
                                      first_match))

\* One call FileOperations.insert_before_pattern(path, pattern, content,
\* first_match=...).
InsertBeforePattern ==
    \E p \in WriterPaths, pattern \in WriterPatterns,
       content \in WriterContents, first_match \in BOOLEAN :
        EditCall("insert_before_pattern",
                 insert_before_pattern(Tree(files, dirs), p, pattern, content,
                                       first_match))

\* One call FileOperations.replace_content(path, old, new, count=...).
ReplaceContent ==
    \E p \in WriterPaths, old \in WriterPatterns,
       new \in WriterContents, count \in WriterCounts :
        EditCall("replace_content",
                 replace_content(Tree(files, dirs), p, old, new, count))

\* One call DeploymentFileGenerator.generate(content, filename, subdir),
\* without a subdir or with the directory a.
DeploymentGenerate ==
    \E filename \in WriterPaths, content \in WriterContents,
       subdir \in {<< >>, <<"a">>} :
        EditCall("deployment_generate",
                 deployment_generate(Tree(files, dirs), content, filename,
                                     subdir))

WriterNext ==
    \/ CreateFile
    \/ DeploymentGenerate
    \/ AppendContent
    \/ InsertContent
    \/ InsertAfterPattern
    \/ InsertBeforePattern
    \/ ReplaceContent

WriterSpec == WriterInit /\ [][WriterNext]_vars

----------------------------------------------------------------------------
(* Declared step metadata (the Generator decorator) and step groups.       *)

MainGenerator_requires ==
    {"ConfigSettingsGenerator", "LoggerManagerGenerator",
     "DatabaseConnectionGenerator"}

DockerComposeGenerator_requires == {"DockerfileGenerator"}

DockerComposeGenerator_enabled_when(c) == has_docker(c)

\* The steps that declare metadata.
DeclaredSteps == {"MainGenerator", "DockerComposeGenerator"}

\* requires of a step; a step that declares none requires nothing.
requires(s) ==
    CASE s = "MainGenerator" -> MainGenerator_requires
      [] s = "DockerComposeGenerator" -> DockerComposeGenerator_requires
      [] OTHER -> {}

\* Activation predicate of a step; a step that declares none is always
\* active.
enabled_when(s, c) ==
    CASE s = "DockerComposeGenerator" -> DockerComposeGenerator_enabled_when(c)
      [] OTHER -> TRUE

----------------------------------------------------------------------------
(* The step registry: register(step) as the registry of the design keeps   *)
(* it, for the two steps that declare metadata and the steps they require. *)

\* The descriptor of a step.
StepDescriptor(s) == [id |-> s, requires |-> requires(s)]

\* The ids of the registered steps, in registration order.
RegisteredIds(reg) == [i \in DOMAIN reg |-> reg[i].id]

\* Mutant: a step whose id is already registered is appended again.
register_appends_again(reg, step) ==
    IF \E d \in step.requires : \A i \in DOMAIN reg : reg[i].id # d
    THEN [registry |-> reg, err |-> "UnsatisfiedDependencyError"]
    ELSE [registry |-> Append(reg, step), err |-> "none"]

\* register(step): the new registry and the error raised. A step whose id
\* is already there is refused, and so is a step that requires an id that
\* is not there (existence is checked at registration time).
register(reg, step) ==
    IF \E i \in DOMAIN reg : reg[i].id = step.id
    THEN [registry |-> reg, err |-> "DuplicateStepError"]
    ELSE IF \E d \in step.requires : \A i \in DOMAIN reg : reg[i].id # d
    THEN [registry |-> reg, err |-> "UnsatisfiedDependencyError"]
    ELSE [registry |-> Append(reg, step), err |-> "none"]

\* register(step) is called for one of the declared steps or of the steps
\* they require; `call` keeps which one.
Register ==
    /\ pc = "idle"
    /\ \E s \in DeclaredSteps \cup UNION {requires(d) : d \in DeclaredSteps} :
          LET r == register(registry, StepDescriptor(s))
          IN  /\ registry' = r.registry
              /\ err' = r.err
              /\ call' = <<"register", s>>
    /\ UNCHANGED <<config, files, dirs, entry, pc, plan, idx, executed,
                   outcome, runs, firstPlan, prevEntry, prevOutcome,
                   prevFiles, answer, asked>>

\* The configurations differ in what _initialize_generators reads (kind of
\* database, authentication mode, docker and testing toggles).
RegistryInit ==
    /\ config \in {c \in Configs : /\ c.cors
                                  /\ c.migration = NULL
                                  /\ c.orm # "SQLAlchemy"}
    /\ files = << >>
    /\ dirs = {}
    /\ entry = "none"
    /\ pc = "idle"
    /\ plan = << >>
    /\ idx = 1
    /\ executed = << >>
    /\ err = "none"
    /\ outcome = "none"
    /\ runs = 0
    /\ firstPlan = << >>
    /\ prevEntry = "none"
    /\ prevOutcome = "none"
    /\ prevFiles = << >>
    /\ registry = << >>
    /\ call = << >>
    /\ answer = "none"
    /\ asked = 0

\* The classes are defined, then an orchestrator is constructed.
RegistryNext ==
    \/ Register
    \/ StartOrchestrator
    \/ BuildPlan

RegistrySpec == RegistryInit /\ [][RegistryNext]_vars

\* Step groups, after the sections of the orchestrator.
PersistenceSteps ==
    {"DatabaseConnectionGenerator", "DatabaseMySQLGenerator",
     "DatabasePostgreSQLGenerator", "DatabaseDependenciesGenerator"}

AuthenticationSteps ==
    {"SecurityGenerator", "CoreDepsGenerator", "UserModelGenerator",
     "UserSchemaGenerator", "UserCRUDGenerator", "TokenModelGenerator",
     "TokenSchemaGenerator", "TokenCRUDGenerator", "AuthServiceGenerator"}

RouteSteps ==
    {"AuthRouterGenerator", "UserRouterGenerator", "ApiV1Generator"}

EmailSteps ==
    {"ConfigEmailGenerator", "EmailServiceGenerator",
     "EmailTemplateGenerator"}

DeploymentSteps ==
    {"DockerfileGenerator", "DockerComposeGenerator",
     "DockerignoreGenerator"}

Range(q) == {q[i] : i \in DOMAIN q}

\* Every step of group A in the plan q comes before every step of group B.
Before(q, A, B) ==
    LET as == {i \in DOMAIN q : q[i] \in A}
        bs == {j \in DOMAIN q : q[j] \in B}
    IN  \A i \in as : \A j \in bs : i < j

\* A step is active for a configuration when its declared activation
\* predicate holds and what its group depends on is configured: a database
\* for the persistence steps, an authentication mode other than `none` for
\* the authentication and route steps.
Active(s, c) ==
    /\ enabled_when(s, c)
    /\ (s \in PersistenceSteps => has_database(c))
    /\ (s \in AuthenticationSteps \cup RouteSteps => has_auth(c))

\* The current invocation has built an orchestrator's generator list.
PlanBuilt == entry \in {"project", "orchestrator"} /\ plan # << >>

\* A step participates when it is in the plan and emits its artifact.
Participates(s) == s \in Range(plan) /\ Generate(s, config) # << >>

Scenario1 == config.db = NULL /\ config.auth = "none"

Scenario2 ==
    config.db # NULL /\ config.auth = "complete" /\ config.docker

Scenario3 == config.auth = "complete" /\ config.db = NULL

\* Every file of the tree before the step is there, unchanged, after it.
FilesKept ==
    \A p \in DOMAIN files : p \in DOMAIN files' /\ files'[p] = files[p]

----------------------------------------------------------------------------
(* Claims.                                                                 *)

\* C1: the generator list holds exactly the steps that are active for the
\* configuration (every planned step is active, every active step is
\* planned), every step of the list comes after all the steps its requires
\* names, and generate() runs the list in order.
C1_PlanActiveAndOrdered ==
    PlanBuilt =>
        /\ \A s \in Range(plan) : Active(s, config)
        /\ \A c \in Configs : \A s \in Range(initialize_generators(c)) :
               Active(s, config) => s \in Range(plan)
        /\ \A i \in DOMAIN plan : \A d \in requires(plan[i]) :
               \E j \in 1..(i - 1) : plan[j] = d
        /\ executed = SubSeq(plan, 1, Len(executed))

C3_ActivationSound ==
    /\ \A i \in DOMAIN plan : enabled_when(plan[i], config)
    /\ \A i \in DOMAIN executed : enabled_when(executed[i], config)

C3_Witness ==
    /\ ~has_docker(config)
    /\ entry = "orchestrator"
    /\ pc = "done"
    /\ executed = plan
    /\ prevEntry = "docker"
    /\ prevOutcome = "exit1"

\* C4: every step that a planned step requires participates in the plan
\* (it is planned and emits its artifact), or no plan is produced.
C4_DependencySatisfied ==
    PlanBuilt =>
        \A i \in DOMAIN plan : \A d \in requires(plan[i]) : Participates(d)

\* C5: with authentication `complete` and no database no plan is produced
\* and no authentication step runs or writes.
C5_Scenario3PlanningFails ==
    (Scenario3 /\ entry \in {"project", "orchestrator"}) =>
        /\ plan = << >>
        /\ Range(executed) \cap AuthenticationSteps = {}
        /\ <<"app", "schemas", "token.py">> \notin DOMAIN files

\* C6: with no database and authentication `none` no persistence,
\* authentication or route step participates in the plan (none is planned
\* and emits an artifact) and no user schema is written.
C6_Scenario1Excludes ==
    (Scenario1 /\ PlanBuilt) =>
        /\ \A s \in PersistenceSteps \cup AuthenticationSteps \cup RouteSteps :
               ~Participates(s)
        /\ <<"app", "schemas", "user.py">> \notin DOMAIN files

\* C7: with a database, authentication `complete` and docker on, the
\* persistence steps come before the authentication steps, these before
\* the route steps, these before the deployment steps, and the email steps
\* are in the plan.
C7_Scenario2Order ==
    (Scenario2 /\ PlanBuilt) =>
        /\ Before(plan, PersistenceSteps, AuthenticationSteps)
        /\ Before(plan, AuthenticationSteps, RouteSteps)
        /\ Before(plan, RouteSteps, DeploymentSteps)
        /\ \A g \in {PersistenceSteps, AuthenticationSteps, RouteSteps,
                     DeploymentSteps} : Range(plan) \cap g # {}
        /\ EmailSteps \subseteq Range(plan)

C7_Witness ==
    /\ Scenario2
    /\ PlanBuilt
    /\ pc = "done"
    /\ executed = plan
    /\ <<"docker-compose.yml">> \in DOMAIN files
    /\ <<"app", "routers", "v1", "auth.py">> \in DOMAIN files

\* C8: a second generate() over the same tree, after one that returned,
\* returns too and leaves the files exactly as the first left them.
C8_Idempotent ==
    (/\ entry = "orchestrator"
     /\ prevEntry \in {"project", "orchestrator"}
     /\ prevOutcome = "returned"
     /\ pc \in {"done", "failed"}) =>
        /\ outcome = "returned"
        /\ files = prevFiles

C8_Witness ==
    /\ entry = "orchestrator"
    /\ prevEntry = "orchestrator"
    /\ prevOutcome = "returned"
    /\ pc = "done"
    /\ executed = plan
    /\ <<"app", "main.py">> \in DOMAIN files

\* C9: when a step fails because its target exists and overwrite was not
\* asked for, the run does not stop there: the generators of the plan are
\* still run to the end.
C9_ConflictContinues ==
    (pc \in {"done", "failed"} /\ err = "FileExistsError") =>
        (plan # << >> /\ idx > Len(plan))

\* C10: a step that raises ends the invocation with the error reaching the
\* caller, no later step runs, and the files written before stay as they
\* are.
C10_FailureAborts ==
    [][ /\ (err' # "none" =>
               pc' = "failed" /\ outcome' \in {"raised", "exit1"})
        /\ ((runs' = runs /\ err = "none" /\ err' # "none") =>
               FilesKept /\ executed' = executed)
        /\ (pc = "failed" => runs' = runs + 1 /\ files' = files) ]_vars

C10_Witness ==
    /\ pc = "failed"
    /\ err = "IsADirectoryError"
    /\ outcome \in {"raised", "exit1"}
    /\ executed # << >>
    /\ files # << >>

----------------------------------------------------------------------------
(* Claims on the configuration and the commands.                           *)

\* A required key of the configuration record is missing.
MissingRequired(c) == ~c.name \/ ~c.features

\* C11: ProjectGenerator.generate over a configuration that lacks a
\* required key (the empty record included) ends with an error before a
\* plan is built and writes nothing to the destination tree.
C11_InvalidConfigRejected ==
    (entry = "project" /\ MissingRequired(config)) =>
        /\ pc = "failed"
        /\ err # "none"
        /\ plan = << >>
        /\ files = prevFiles
        /\ (runs = 1 => dirs = {})

\* C12: within an invocation no step creates or changes a directory or a
\* file of the destination tree before the generator list has been built.
C12_PlanningPrecedesMutation ==
    [][ (runs' = runs /\ (files' # files \/ dirs' # dirs)) =>
            plan # << >> ]_vars

\* C13: an init or docker command in which a step raised ends with exit
\* status 1; it ends with status 0 only when nothing raised and every
\* step of its plan ran.
C13_FailureExitsNonZero ==
    (entry \in Commands /\ pc \in {"done", "failed"}) =>
        /\ outcome \in {"exit0", "exit1"}
        /\ (err # "none" => outcome = "exit1")
        /\ (pc = "failed" => outcome = "exit1")
        /\ (outcome = "exit0" => err = "none" /\ executed = plan)

C13_Witness ==
    /\ entry = "init"
    /\ pc = "failed"
    /\ err = "FileExistsError"
    /\ outcome = "exit1"
    /\ prevEntry = "init_noninteractive"
    /\ prevOutcome = "exit0"
    /\ prevFiles # << >>

\* C15: from the start of an invocation to its end no step changes the
\* configuration: the generators read the values the plan was built from.
C15_ConfigStable == [][ runs' = runs => config' = config ]_vars

C15_Witness ==
    /\ entry = "init"
    /\ pc = "done"
    /\ plan # << >>
    /\ executed = plan
    /\ config.auth = "complete"
    /\ config.docker
    /\ <<"docker-compose.yml">> \in DOMAIN files

\* C16: the generators that have run are always a prefix of the plan,
\* also after an abort, and they run one at a time: a step adds exactly
\* the next generator of the plan to those that have run.
C16_SequentialPrefix ==
    [][ /\ executed' = SubSeq(plan', 1, Len(executed'))
        /\ ((runs' = runs /\ executed' # executed) =>
               /\ plan' = plan
               /\ idx = Len(executed) + 1
               /\ executed' = Append(executed, plan[idx])) ]_vars

C16_Witness ==
    /\ entry = "orchestrator"
    /\ pc = "failed"
    /\ Len(executed) \in 1..(Len(plan) - 1)
    /\ plan[Len(executed) + 1] = "MainGenerator"
    /\ executed = SubSeq(plan, 1, Len(executed))

\* The steps the claim names as checking the configuration themselves,
\* and the condition each one needs.
SelfChecked ==
    {"ConfigCorsGenerator", "ConfigDatabaseGenerator", "ConfigEmailGenerator"}

SelfCheck(s, c) ==
    CASE s = "ConfigCorsGenerator" -> c.cors
      [] s = "ConfigDatabaseGenerator" -> c.db # NULL
      [] s = "ConfigEmailGenerator" -> c.auth = "complete"

\* GeneratorOrchestrator.generate() returns None: the loop drops what
\* generator.generate() returns, and no outcome is kept for any generator.
generate_returns == NULL

\* C17: a step whose own check of the configuration fails writes
\* nothing, raises nothing, the loop goes on with the next step, and the
\* report that generate() returns lists the step as skipped and not as
\* failed.
C17_SelfGatedNoOp ==
    [][ (/\ pc = "exec"
         /\ runs' = runs
         /\ idx <= Len(plan)
         /\ plan[idx] \in SelfChecked
         /\ ~SelfCheck(plan[idx], config)) =>
            /\ files' = files
            /\ dirs' = dirs
            /\ err' = "none"
            /\ pc' = "exec"
            /\ idx' = idx + 1
            /\ executed' = Append(executed, plan[idx])
            /\ generate_returns # NULL
            /\ plan[idx] \in generate_returns.skipped
            /\ plan[idx] \notin generate_returns.failed ]_vars

\* No element occurs twice in the sequence q.
NoDup(q) == \A i, j \in DOMAIN q : i # j => q[i] # q[j]

\* C19: register(step) for an id that is already registered fails with
\* DuplicateStepError and leaves the registry as it was, a registration
\* that goes through appends that one step, no id is ever registered
\* twice, and no generator list holds a step twice.
C19_UniqueSteps ==
    [][ /\ NoDup(RegisteredIds(registry'))
        /\ NoDup(plan')
        /\ (pc = "idle" /\ pc' = "idle" /\ call' # << >>) =>
               /\ (call'[2] \in Range(RegisteredIds(registry))) =>
                      /\ err' = "DuplicateStepError"
                      /\ registry' = registry
               /\ err' # "none" => registry' = registry
               /\ err' = "none" =>
                      registry' =
                          Append(registry, StepDescriptor(call'[2])) ]_vars

C19_Witness ==
    /\ err = "DuplicateStepError"
    /\ call = <<"register", "DockerComposeGenerator">>
    /\ RegisteredIds(registry) =
          <<"DockerfileGenerator", "DockerComposeGenerator">>

\* C20: an interactive init on a project that an earlier init has
\* configured, answered with "Overwrite", saves the configuration, runs
\* every generator of the new plan and ends with exit status 0 (every
\* question that follows being answered).
C20_OverwriteRegenerates ==
    (/\ entry = "init"
     /\ prevEntry \in {"init", "init_noninteractive"}
     /\ pc \in {"done", "failed"}
     /\ answer = "Overwrite"
     /\ err # "AttributeError") =>
        /\ pc = "done"
        /\ outcome = "exit0"
        /\ config.file
        /\ plan # << >>
        /\ executed = plan

----------------------------------------------------------------------------
(* Claims on the writer.                                                   *)

\* The files other than p are the same in the trees f and g.
SameExcept(f, g, p) ==
    /\ DOMAIN f \ {p} = DOMAIN g \ {p}
    /\ \A q \in DOMAIN f \ {p} : f[q] = g[q]

\* The path cannot hold a file: it is a directory, or a parent is a file.
Blocked(t, p) == p \in t.dirs \/ Ancestors(p) \cap DOMAIN t.files # {}

\* C14 as stated: create_file with overwrite=false on an existing path
\* fails with FileExistsError and changes nothing; every other call
\* creates the missing parent directories and leaves exactly the given
\* content at the path.
C14_WriteContract ==
    call # << >> =>
        IF ~call[1].overwrite /\ Exists(call[1].before, call[1].path)
        THEN /\ err = "FileExistsError"
             /\ files = call[1].before.files
             /\ dirs = call[1].before.dirs
        ELSE /\ err = "none"
             /\ Ancestors(call[1].path) \subseteq dirs
             /\ call[1].path \in DOMAIN files
             /\ files[call[1].path] = call[1].content
             /\ SameExcept(files, call[1].before.files, call[1].path)

\* C14 amended: as C14, except that a call which is not refused for an
\* existing path, on a path that is a directory or has a file among its
\* parents, raises and changes nothing.
C14_WriteContractAmended ==
    call # << >> =>
        IF ~call[1].overwrite /\ Exists(call[1].before, call[1].path)
        THEN /\ err = "FileExistsError"
             /\ files = call[1].before.files
             /\ dirs = call[1].before.dirs
        ELSE IF Blocked(call[1].before, call[1].path)
        THEN /\ err \in {"IsADirectoryError", "FileExistsError",
                         "NotADirectoryError"}
             /\ files = call[1].before.files
             /\ dirs = call[1].before.dirs
        ELSE /\ err = "none"
             /\ Ancestors(call[1].path) \subseteq dirs
             /\ call[1].path \in DOMAIN files
             /\ files[call[1].path] = call[1].content
             /\ SameExcept(files, call[1].before.files, call[1].path)

C14_Witness ==
    /\ call # << >>
    /\ ~call[1].overwrite
    /\ call[1].path = <<"a", "b", "c">>
    /\ call[1].path \in DOMAIN call[1].before.files
    /\ call[1].before.files[call[1].path] # call[1].content
    /\ err = "FileExistsError"
    /\ files[call[1].path] = call[1].before.files[call[1].path]

----------------------------------------------------------------------------
(* Claims on the init and docker commands.                                 *)

\* The answers that keep the existing project.
Refusals == {"Cancel", "Update", NULL}

\* C21: an interactive init on an existing project that is answered with
\* Cancel, Update or no answer ends at once with exit status 0; the
\* configuration file, the files and the directories stay as they were,
\* no plan is built, no generator runs, and no later step belongs to it.
C21_RefusalChangesNothing ==
    [][ /\ (/\ runs' = runs + 1
            /\ entry' = "init"
            /\ ProjectConfig_exists(config)
            /\ answer' \in Refusals) =>
               /\ pc' = "done"
               /\ outcome' = "exit0"
               /\ err' = "none"
               /\ config' = config
               /\ files' = files
               /\ dirs' = dirs
               /\ plan' = << >>
               /\ executed' = << >>
        /\ (/\ runs' = runs + 1
            /\ entry' = "init"
            /\ ProjectConfig_exists(config)) => answer' \in Answers
        /\ (entry = "init" /\ answer \in Refusals) => runs' = runs + 1 ]_vars

C21_Witness ==
    /\ entry = "init"
    /\ answer = "Update"
    /\ pc = "done"
    /\ outcome = "exit0"
    /\ prevEntry = "init_noninteractive"
    /\ prevOutcome = "exit0"
    /\ config = DefaultConfig
    /\ files = prevFiles
    /\ <<"app", "main.py">> \in DOMAIN files

----------------------------------------------------------------------------
(* Claims on the plan and the generated tree.                              *)

BaseTestSteps == {"ConftestGenerator", "TestMainGenerator"}

AuthTestSteps == {"TestAuthGenerator", "TestUsersGenerator"}

TokenSteps ==
    {"TokenModelGenerator", "TokenSchemaGenerator", "TokenCRUDGenerator"}

EmailServiceSteps == {"EmailServiceGenerator", "EmailTemplateGenerator"}

\* Every step of the group g is in the plan when b holds, none otherwise.
InPlanIff(g, b) == \A s \in g : s \in Range(plan) <=> b

\* C22: in every generator list the orchestrator builds, the docker steps
\* are there iff docker is on, the test steps iff testing is on, the auth
\* test steps iff testing is on and has_auth() holds, the token and email
\* service steps iff the authentication type is `complete`, and the MySQL
\* (PostgreSQL) manager iff the database type is MySQL (PostgreSQL).
C22_GroupsFollowConfig ==
    PlanBuilt =>
        /\ InPlanIff(DeploymentSteps, has_docker(config))
        /\ InPlanIff(BaseTestSteps, has_testing(config))
        /\ InPlanIff(AuthTestSteps, has_testing(config) /\ has_auth(config))
        /\ InPlanIff(TokenSteps \cup EmailServiceSteps,
                     get_auth_type(config) = "complete")
        /\ InPlanIff({"DatabaseMySQLGenerator"},
                     get_database_type(config) = "MySQL")
        /\ InPlanIff({"DatabasePostgreSQLGenerator"},
                     get_database_type(config) = "PostgreSQL")

C22_Witness ==
    /\ PlanBuilt
    /\ pc = "done"
    /\ executed = plan
    /\ has_testing(config)
    /\ get_auth_type(config) = "none"
    /\ ~has_docker(config)
    /\ get_database_type(config) = "MySQL"
    /\ BaseTestSteps \subseteq Range(executed)
    /\ "DatabaseMySQLGenerator" \in Range(executed)
    /\ Range(executed) \cap (AuthTestSteps \cup DeploymentSteps
                             \cup TokenSteps) = {}

\* The files the three generators of docker_command write, in order.
DockerArtifacts ==
    << <<"Dockerfile">>, <<"docker-compose.yml">>, <<".dockerignore">> >>

\* C23: a docker command on a project without a configuration file or with
\* the docker toggle off ends with exit status 1 and writes nothing; the
\* command writes only when the configuration loads with docker on, and
\* then one file per step: Dockerfile, docker-compose.yml, .dockerignore,
\* in that order, leaving every other file as it is.
C23_DockerCommandGated ==
    [][ /\ (entry' = "docker" /\ runs' = runs + 1) =>
               (files' = files /\ dirs' = dirs)
        /\ (entry' = "docker"
            /\ (load_config(config') # "none" \/ ~has_docker(config'))) =>
               /\ pc' = "failed"
               /\ outcome' = "exit1"
               /\ executed' = << >>
               /\ files' = prevFiles'
        /\ (entry = "docker" /\ runs' = runs /\ files' # files) =>
               /\ load_config(config) = "none"
               /\ has_docker(config)
               /\ idx \in DOMAIN DockerArtifacts
               /\ Len(executed) = idx - 1
               /\ DOMAIN files' = DOMAIN files \cup {DockerArtifacts[idx]}
               /\ \A q \in DOMAIN files :
                      q # DockerArtifacts[idx] => files'[q] = files[q]
               /\ executed' = SubSeq(docker_command_generators, 1, idx)
      ]_vars

C23_Witness ==
    /\ entry = "docker"
    /\ pc = "done"
    /\ outcome = "exit0"
    /\ prevFiles = << >>
    /\ ~config.name
    /\ has_docker(config)
    /\ executed = docker_command_generators
    /\ DOMAIN files = Range(DockerArtifacts)

ConfigInitPath == <<"app", "core", "config", "__init__.py">>

ApiV1Path == <<"app", "routers", "v1", "__init__.py">>

\* The placeholder paths that a later write fills under configuration c.
Rewritten(c) ==
    {ConfigInitPath} \cup (IF has_auth(c) THEN {ApiV1Path} ELSE {})

\* In the write list ws the path p is written exactly twice: first as an
\* empty placeholder without overwrite, then with a content.
PlaceholderFirst(ws, p) ==
    \E i, j \in DOMAIN ws :
        /\ i < j
        /\ ws[i] = Write(p, EMPTY, FALSE)
        /\ ws[j].path = p
        /\ ws[j].content # EMPTY
        /\ \A k \in DOMAIN ws : ws[k].path = p => k \in {i, j}

\* C24: when the first generation into an empty destination has returned,
\* app/core/config/__init__.py holds the export of settings and, with
\* has_auth(), app/routers/v1/__init__.py holds the router aggregation,
\* while every other placeholder is still empty; and whenever a placeholder
\* path gets a content, the empty placeholder was written before: by an
\* earlier step, or earlier in the write list of the same step.
C24_PlaceholderThenContent ==
    [][ /\ (entry' = "project" /\ runs' = 1 /\ pc' = "done") =>
               /\ files'[ConfigInitPath] = <<"config_init", "settings">>
               /\ (has_auth(config') => files'[ApiV1Path] = <<"api_v1">>)
               /\ \A p \in Range(init_files(config')) \ Rewritten(config') :
                      files'[p] = EMPTY
        /\ (entry = "project" /\ runs = 1 /\ runs' = runs) =>
               \A p \in Range(init_files(config)) :
                   (/\ p \in DOMAIN files'
                    /\ files'[p] # EMPTY
                    /\ (p \notin DOMAIN files \/ files[p] = EMPTY)) =>
                       \/ (p \in DOMAIN files /\ files[p] = EMPTY)
                       \/ /\ pc = "init_files"
                          /\ PlaceholderFirst(create_init_files(config), p)
      ]_vars

C24_Witness ==
    /\ entry = "project"
    /\ runs = 1
    /\ pc = "done"
    /\ outcome = "returned"
    /\ get_auth_type(config) = "basic"
    /\ has_testing(config)
    /\ files[ConfigInitPath] = <<"config_init", "settings">>
    /\ files[ApiV1Path] = <<"api_v1">>
    /\ files[<<"app", "routers", "__init__.py">>] = EMPTY
    /\ files[<<"tests", "__init__.py">>] = EMPTY

\* C25: has_auth() holds exactly when the authentication type is `basic`
\* or `complete`, so that after a generation the steps that ask has_auth()
\* and the steps that branch on the type agree: the authentication router
\* and the JWT settings are written exactly when app/main.py is the
\* variant with authentication.
C25_AuthPredicatesAgree ==
    (entry \in {"project", "orchestrator"} /\ pc = "done") =>
        /\ has_auth(config) <=> get_auth_type(config) \in {"basic", "complete"}
        /\ (get_auth_type(config) = NULL => ~has_auth(config))
        /\ (<<"app", "routers", "v1", "auth.py">> \in DOMAIN files
                <=> files[<<"app", "main.py">>][2] = "with_auth")
        /\ (<<"app", "core", "config", "modules", "jwt.py">> \in DOMAIN files
                <=> files[<<"app", "main.py">>][2] = "with_auth")

\* The constraints between the entries of a configuration.
Coherent(c) ==
    /\ (c.auth # "none" => c.db # NULL)
    /\ (has_refresh_token(c) <=> c.auth = "complete")
    /\ (c.migration # NULL => c.db # NULL)

\* C26: the configuration an init has saved, interactive with any answers
\* or non-interactive, has an authentication type other than `none` only
\* with a database, the refresh token flag exactly with type `complete`,
\* and a migration tool only with a database. An init that was refused,
\* or whose questions raised, has saved none.
C26_SavedConfigCoherent ==
    (/\ entry \in {"init", "init_noninteractive"}
     /\ answer \notin Refusals
     /\ err # "AttributeError") =>
        /\ ProjectConfig_exists(config)
        /\ config.auth \in {"none", "basic", "complete"}
        /\ Coherent(config)

C26_Witness ==
    /\ entry = "init"
    /\ answer = "Overwrite"
    /\ prevEntry = "init_noninteractive"
    /\ config.db = "MySQL"
    /\ config.migration = NULL
    /\ config.auth = "basic"
    /\ ~has_refresh_token(config)

\* The configuration modules that are written only under a condition.
OptionalModules == {"database", "jwt", "email", "cors"}

\* The optional modules a generated file imports.
ModulesIn(content) == Range(content) \cap OptionalModules

\* The optional modules whose file is in the tree.
ModulesEmitted ==
    {m \in OptionalModules :
        \E p \in DOMAIN files :
            /\ Len(p) = 5
            /\ SubSeq(p, 1, 4) = <<"app", "core", "config", "modules">>
            /\ p[5] = CASE m = "database" -> "database.py"
                        [] m = "jwt" -> "jwt.py"
                        [] m = "email" -> "email.py"
                        [] m = "cors" -> "cors.py"}

\* C27: when the first generation into a destination has returned, the
\* optional configuration modules that settings.py imports, and those
\* that modules/__init__.py imports, are exactly the modules whose file
\* the generators have written.
C27_ReferencedModulesEmitted ==
    (entry = "project" /\ runs = 1 /\ pc = "done") =>
        /\ ModulesIn(files[<<"app", "core", "config", "modules",
                             "__init__.py">>]) = ModulesEmitted
        /\ ModulesIn(files[<<"app", "core", "config", "settings.py">>])
              = ModulesEmitted

----------------------------------------------------------------------------
(* The migration files: projects are generated, AlembicGenerator is run    *)
(* again on them, and the developer edits alembic/env.py in between.       *)

AlembicEnvPath == <<"alembic", "env.py">>

\* The files _create_alembic_structure writes or touches.
AlembicArtifacts ==
    {<<"alembic.ini">>, AlembicEnvPath, <<"alembic", "script.py.mako">>,
     <<"alembic", "README.md">>, <<"alembic", "versions", ".gitkeep">>}

\* The configurations of the migration specification: the toggles are off.
AlembicConfigs == {c \in Configs : ~c.cors /\ ~c.testing /\ ~c.docker}

\* Between two invocations the developer edits the generated env.py.
EditMigrationEnv ==
    /\ Terminated
    /\ AlembicEnvPath \in DOMAIN files
    /\ files[AlembicEnvPath] # <<"edited">>
    /\ files' = [files EXCEPT ![AlembicEnvPath] = <<"edited">>]
    /\ UNCHANGED <<config, dirs, entry, pc, plan, idx, executed, err,
                   outcome, runs, firstPlan, prevEntry, prevOutcome,
                   prevFiles>>
    /\ UNCHANGED aux

\* The destination trees of the migration specification before the first
\* invocation: empty, a regular file where the directory script or the
\* directory alembic goes, or a directory at alembic/versions/.gitkeep.
AlembicTrees ==
    { Tree(<< >>, {}),
      Tree([q \in {<<"script">>} |-> <<"x">>], {}),
      Tree([q \in {<<"alembic">>} |-> <<"x">>], {}),
      Tree(<< >>, {<<"alembic">>, <<"alembic", "versions">>,
                   <<"alembic", "versions", ".gitkeep">>}) }

AlembicInit ==
    /\ config \in AlembicConfigs
    /\ \E t \in AlembicTrees : files = t.files /\ dirs = t.dirs
    /\ entry = "none"
    /\ pc = "idle"
    /\ plan = << >>
    /\ idx = 1
    /\ executed = << >>
    /\ err = "none"
    /\ outcome = "none"
    /\ runs = 0
    /\ firstPlan = << >>
    /\ prevEntry = "none"
    /\ prevOutcome = "none"
    /\ prevFiles = << >>
    /\ registry = << >>
    /\ call = << >>
    /\ answer = "none"
    /\ asked = 0

AlembicNext ==
    \/ StartProject
    \/ StartAlembic
    \/ EditMigrationEnv
    \/ CreateDirectories
    \/ CreateInitFiles
    \/ CreateConfigModulesInit
    \/ CreateResponseUtils
    \/ BuildPlan
    \/ RunGenerator
    \/ FinishPlan
    \/ InitAlembic

AlembicSpec == AlembicInit /\ [][AlembicNext]_vars

\* The step changes or creates a migration file.
AlembicChanged ==
    \E p \in AlembicArtifacts \cap DOMAIN files' :
        p \notin DOMAIN files \/ files'[p] # files[p]

\* C28: inside create_project_structure AlembicGenerator.generate runs
\* when every generator of the orchestrator has run; a step of an
\* invocation changes a migration file only when it is that call, a
\* database and a migration tool are configured and alembic/env.py is not
\* there; when alembic/env.py is there the call changes nothing; and the
\* call writes nothing but migration files.
C28_AlembicGuarded ==
    [][ /\ (pc' = "alembic" /\ entry' \in ProjectEntries) =>
               (plan' # << >> /\ executed' = plan')
        /\ (runs' = runs /\ ~Terminated /\ AlembicChanged) =>
               /\ pc = "alembic"
               /\ has_database(config)
               /\ has_migration(config)
               /\ ~Exists(Tree(files, dirs), AlembicEnvPath)
        /\ (runs' = runs /\ pc = "alembic"
            /\ Exists(Tree(files, dirs), AlembicEnvPath)) =>
               (files' = files /\ dirs' = dirs /\ err' = "none")
        /\ (runs' = runs /\ pc = "alembic") =>
               \A p \in DOMAIN files' :
                   (p \notin DOMAIN files \/ files'[p] # files[p]) =>
                       p \in AlembicArtifacts
      ]_vars

C28_Witness ==
    /\ entry = "alembic"
    /\ pc = "done"
    /\ outcome = "returned"
    /\ prevEntry = "project"
    /\ prevOutcome = "returned"
    /\ has_migration(config)
    /\ files[AlembicEnvPath] = <<"edited">>
    /\ <<"alembic.ini">> \in DOMAIN files
    /\ <<"app", "main.py">> \in DOMAIN files

====
